---- MODULE Spec2Model ----
(***************************************************************************)
(* The safe wrapper of ggwave-rs (src/src/lib.rs) over the native ggwave   *)
(* codec declared in src/src/ffi.rs, and the two operations of the         *)
(* command line tool (src/ggwave-cli/src/main.rs).                         *)
(*                                                                         *)
(* The native codec ("Engine") is not part of the sources: only its        *)
(* declarations are.  Its behaviour is modelled from its contract and is   *)
(* kept apart in the section "Engine".                                     *)
(***************************************************************************)
EXTENDS Integers, Sequences, FiniteSets, TLC

\* ------------------------------------------------------------ constants
GGWAVE_MAX_INSTANCES == 4
MAX_DATA_SIZE == 256
C_INT_MAX == 2147483647
GGWAVE_SAMPLE_FORMAT_UNDEFINED == 0
GGWAVE_SAMPLE_FORMAT_F32 == 5
GGWAVE_PROTOCOL_AUDIBLE_FAST == 1
GGWAVE_PROTOCOL_COUNT == 22
I16_MAX == 32767
I16_MIN == -32768
I32_MAX == 2147483647
I32_MIN == -I32_MAX - 1

\* -------------------------------------------------------------- bounds
\* Session values the client program creates (never reused once dropped).
MaxSessions == 5
\* Largest waveform size, in bytes, the Engine reports for an encode.
MaxWaveform == 2
\* Threads of a multi-threaded client program.
MaxThreads == 2
\* Session values the threads of a multi-threaded client program create.
MaxThreadSessions == 2

SessionIds == 1 .. MaxSessions
Threads == 1 .. MaxThreads
\* The thread of a program that starts no other: the one that runs main().
MainThread == 1
Handles == 0 .. (GGWAVE_MAX_INSTANCES - 1)

\* ----------------------------------------------------------- data model
\* A usize, 64 bits wide, is held in two parts, the numbers of TLC being 32
\* bits wide: hi, its bits 31 to 63, and lo, its bits 0 to 30.  Its value
\* is hi * 2^31 + lo.
usize(hi, lo) == [hi |-> hi, lo |-> lo]
\* `n as usize` of a c_int n >= 0.
as_usize(n) == usize(0, n)
usize_lt(a, b) == a.hi < b.hi \/ (a.hi = b.hi /\ a.lo < b.lo)

\* A borrowed byte slice &[u8]: its length (a usize, which may exceed what
\* a c_int holds) and its content, byte i being (seed + i) mod 256.
Slice(len, seed) == [len |-> len, seed |-> seed]
ByteAt(s, i) == (s.seed + i) % 256
\* The bytes of a slice as an owned Vec<u8>.
to_vec(s) == [i \in 1 .. s.len.lo |-> ByteAt(s, i)]

NoSlice == Slice(as_usize(0), 0)

\* A waveform buffer: its length in bytes and the signal its samples hold:
\* all-zero samples, samples holding no transmission, or the transmission
\* of a payload.
Wave(len, kind, payload) == [len |-> len, kind |-> kind, payload |-> payload]
NoWave == Wave(as_usize(0), "silence", NoSlice)

\* vec![0u8; n] of the encode path: n zero bytes (n a usize).
vec_zeroed_wave(n) == Wave(n, "silence", NoSlice)
\* vec![0u8; n] of the decode path.
vec_zeroed(n) == [i \in 1 .. n |-> 0]
\* truncate that keeps the whole buffer.
truncate_keeps_all(v, n) == v
\* Vec::truncate: keeps the first n elements, and does nothing when n is not
\* smaller than the length.
truncate(v, n) == IF n < Len(v) THEN SubSeq(v, 1, n) ELSE v
\* truncate that never shortens.
truncate_wave_none(w, n) == w
truncate_wave(w, n) == IF usize_lt(n, w.len) THEN [w EXCEPT !.len = n] ELSE w

\* An f32 that is neither an infinity nor a NaN: m * 2^e, negated when
\* neg.  m = 0, or m has 24 bits (2^23 <= m < 2^24).
F32(neg, m, e) == [neg |-> neg, m |-> m, e |-> e]

RECURSIVE bits_over(_, _)
\* The least k >= at for which q \div 2^k has at most 24 bits.
bits_over(q, at) == IF q \div (2 ^ at) < 2 ^ 24 THEN at ELSE bits_over(q, at + 1)

RECURSIVE shift_up(_, _, _)
\* m * 2^e, m > 0 of fewer than 24 bits, with m brought to 24 bits.
shift_up(neg, m, e) ==
    IF m >= 2 ^ 23 THEN F32(neg, m, e) ELSE shift_up(neg, 2 * m, e - 1)

\* The f32 nearest to q * 2^e (q > 0; sticky: the value is a little above
\* q * 2^e, by less than 2^e), ties going to the even mantissa.
f32_round(neg, q, e, sticky) ==
    IF q < 2 ^ 24 THEN shift_up(neg, q, e)
    ELSE LET k == bits_over(q, 1)
             m == q \div (2 ^ k)
             rem == q % (2 ^ k)
             half == 2 ^ (k - 1)
             up == rem > half \/ (rem = half /\ (sticky \/ m % 2 = 1))
         IN  IF ~up THEN F32(neg, m, e + k)
             ELSE IF m + 1 = 2 ^ 24 THEN F32(neg, 2 ^ 23, e + k + 1)
             ELSE F32(neg, m + 1, e + k)

\* `s as f32` of an i16 or an i32.
int_as_f32(s) ==
    IF s = 0 THEN F32(FALSE, 0, 0)
    ELSE IF s = I32_MIN THEN F32(TRUE, 2 ^ 23, 8)
    ELSE f32_round(s < 0, IF s < 0 THEN -s ELSE s, 0, FALSE)

RECURSIVE div_bits(_, _, _, _)
\* n more bits of the quotient q of a long division by d, r the remainder.
div_bits(r, d, q, n) ==
    IF n = 0 THEN [q |-> q, r |-> r]
    ELSE IF 2 * r >= d THEN div_bits(2 * r - d, d, 2 * q + 1, n - 1)
    ELSE div_bits(2 * r, d, 2 * q, n - 1)

\* a / b of two f32, b not zero: the f32 nearest to the quotient.
f32_div(a, b) ==
    IF a.m = 0 THEN F32(a.neg # b.neg, 0, 0)
    ELSE LET n == IF a.m >= b.m THEN 24 ELSE 25
             d == IF a.m >= b.m THEN div_bits(a.m - b.m, b.m, 1, n)
                                ELSE div_bits(a.m, b.m, 0, n)
         IN  f32_round(a.neg # b.neg, d.q, a.e - b.e - n, d.r # 0)

\* ggwave_Parameters (the two fields the command line tool overrides).
Parameters(inp, out) == [sampleFormatInp |-> inp, sampleFormatOut |-> out]
SampleFormats == {GGWAVE_SAMPLE_FORMAT_UNDEFINED, GGWAVE_SAMPLE_FORMAT_F32}
ParameterSet == {Parameters(i, o) : i \in SampleFormats, o \in SampleFormats}
NoParameters == Parameters(GGWAVE_SAMPLE_FORMAT_UNDEFINED, GGWAVE_SAMPLE_FORMAT_UNDEFINED)

\* struct GgWave, with the position of the value in its life.
GgWave(state, instance, parameters, freed) ==
    [state |-> state, instance |-> instance, parameters |-> parameters, freed |-> freed]
NoGgWave == GgWave("Uninitialized", -1, NoParameters, 0)

\* One call across the FFI boundary.  live: the handle was allocated when
\* the call was made.  payloadBuffer: the bytes payloadBuffer points to, of
\* an encode.  buf: the length of the destination buffer (0: null).
Call(fn, instance, live, payloadBuffer, size, protocolId, volume, buf, query, ret) ==
    [fn |-> fn, instance |-> instance, live |-> live,
     payloadBuffer |-> payloadBuffer, size |-> size,
     protocolId |-> protocolId, volume |-> volume, buf |-> buf,
     query |-> query, ret |-> ret]

VARIABLES
    g_instances,  \* Engine: the global handle table, TRUE where allocated
    sessions,     \* the GgWave values of the client program
    calls,        \* the Engine calls made by the last operation, in order
    last,         \* the last operation of the wrapper: inputs and result
    cli,          \* the command line tool: where its encode or decode stands
    owner,        \* the thread that created each session (0: not created)
    threads,      \* the operation each thread of the program is executing
    g_protocols,  \* Engine: the global protocol toggles, rx and tx
    pcm           \* the integer sample decode() of the tool converts

vars == <<g_instances, sessions, calls, last, cli, owner, threads, g_protocols, pcm>>

\* ---------------------------------------------------------------- Engine
\* The native codec behind the declarations of ffi.rs.

\* The configurations the Engine accepts at ggwave_init.
EngineAccepts(parameters) ==
    /\ parameters.sampleFormatInp # GGWAVE_SAMPLE_FORMAT_UNDEFINED
    /\ parameters.sampleFormatOut # GGWAVE_SAMPLE_FORMAT_UNDEFINED

\* Return codes of ggwave_ndecode other than 0, -1, -2 and a length.
UnspecifiedCodes == {-3}

\* ggwave_init: the first free handle of the table, now allocated, or a
\* negative value when the table is full or the configuration is not
\* accepted.  (The handles are interchangeable: which free one is taken
\* changes nothing but its number.)
ggwave_init(parameters) ==
    LET free == {h \in Handles : ~g_instances[h]} IN
    IF EngineAccepts(parameters) /\ free # {}
    THEN LET h == CHOOSE x \in free : \A y \in free : x <= y
         IN  [ret |-> h, table |-> [g_instances EXCEPT ![h] = TRUE]]
    ELSE [ret |-> -1, table |-> g_instances]

\* ggwave_free on the handle table: the handle is free again; no effect on
\* a handle that is not allocated.
ggwave_free(table, instance) ==
    IF instance \in Handles /\ table[instance]
    THEN [table EXCEPT ![instance] = FALSE]
    ELSE table

IsLive(instance) == instance \in Handles /\ g_instances[instance]

\* ggwave_encode.  With the query flag set: the size in bytes the waveform
\* needs (here MaxWaveform), or a value <= 0; nothing is written.  With the
\* flag cleared: the number of bytes written to waveformBuffer, at most its
\* length, or a value <= 0.
ggwave_encode(instance, payloadBuffer, payloadSize, protocolId, volume, waveformBuffer, query) ==
    IF ~IsLive(instance)
    THEN {[ret |-> -1, wave |-> waveformBuffer]}
    ELSE IF query # 0
    THEN {[ret |-> r, wave |-> waveformBuffer] : r \in {-1, 0, MaxWaveform}}
    ELSE {[ret |-> r,
           wave |-> IF r > 0
                    THEN Wave(waveformBuffer.len, "data",
                              Slice(as_usize(payloadSize), payloadBuffer.seed))
                    ELSE waveformBuffer] : r \in -1 .. waveformBuffer.len.lo}

\* ggwave_ndecode: 0 when the waveform holds no transmission, -1 on a
\* failure, -2 when the payload transmitted is longer than payloadSize, and
\* otherwise the payload's length, the payload being copied to the front
\* of payloadBuffer.
ggwave_ndecode(instance, waveformBuffer, waveformSize, payloadBuffer, payloadSize) ==
    IF ~IsLive(instance)
    THEN {[ret |-> -1, buf |-> payloadBuffer]}
    ELSE IF waveformBuffer.kind = "silence"
    THEN {[ret |-> 0, buf |-> payloadBuffer]}
    ELSE IF waveformBuffer.kind = "noise"
    THEN {[ret |-> r, buf |-> payloadBuffer] : r \in {0, -1} \cup UnspecifiedCodes}
    ELSE LET n == waveformBuffer.payload.len.lo IN
         IF n > payloadSize
         THEN {[ret |-> -2, buf |-> payloadBuffer]}
         ELSE {[ret |-> n,
                buf |-> [i \in 1 .. Len(payloadBuffer) |->
                           IF i <= n THEN ByteAt(waveformBuffer.payload, i)
                                     ELSE payloadBuffer[i]]]}

\* ggwave_rxDurationFrames: the number of frames of the transmission the
\* handle is receiving, 0 when it is receiving none.
ggwave_rxDurationFrames(instance) ==
    IF ~IsLive(instance) THEN {-1} ELSE {0, 1}

\* ggwave_rxToggleProtocol and ggwave_txToggleProtocol on a set of enabled
\* protocols: the protocol is enabled when state is not 0, disabled when 0.
ggwave_toggleProtocol(enabled_set, protocolId, state) ==
    IF state # 0 THEN enabled_set \cup {protocolId} ELSE enabled_set \ {protocolId}

\* --------------------------------------------------------------- wrapper
\* Result<_, Error> of an operation, with what it leaves behind.
\*   res   "Ok" or the Error variant        msg   the text of InvalidInput
\*   wave  the Vec<u8> of an Ok encode      some  decode returned Some(_)
\*   data  the Vec<u8> of Some(_)           calls the Engine calls made
Outcome(res, msg, wave, some, data, cs) ==
    [res |-> res, msg |-> msg, wave |-> wave, some |-> some, data |-> data,
     calls |-> cs]
Err(res, msg, cs) == Outcome(res, msg, NoWave, FALSE, <<>>, cs)

\* fn to_c_int: c_int::try_from(value), or InvalidInput(context).
to_c_int(value, context) ==
    IF value.hi = 0 /\ value.lo <= C_INT_MAX
    THEN [ok |-> TRUE, value |-> value.lo, msg |-> ""]
    ELSE [ok |-> FALSE, value |-> 0, msg |-> context]

\* The range without its bounds.
volume_in_range_exclusive(volume) == 0 < volume /\ volume < 100

\* (0..=100).contains(&volume)
volume_in_range(volume) == 0 <= volume /\ volume <= 100

\* The fill phase with a buffer of MAX_DATA_SIZE bytes, whatever the size
\* the query returned.
encode_fill_fixed_buffer(self, payload, payload_len, protocol, volume, size, c1) ==
    IF size <= 0
    THEN {Err("EncodeFailed", "", <<c1>>)}
    ELSE LET waveform == vec_zeroed_wave(as_usize(MAX_DATA_SIZE)) IN
         { LET written == e.ret
               c2 == Call("encode", self.instance, IsLive(self.instance),
                          payload, payload_len, protocol, volume, waveform.len.lo, 0,
                          written)
           IN  IF written <= 0
               THEN Err("EncodeFailed", "", <<c1, c2>>)
               ELSE Outcome("Ok", "", truncate_wave(e.wave, as_usize(written)), FALSE, <<>>,
                            <<c1, c2>>)
           : e \in ggwave_encode(self.instance, payload, payload_len, protocol,
                                 volume, waveform, 0) }

\* GgWave::encode, from the fill phase on: size is what the query returned.
encode_fill(self, payload, payload_len, protocol, volume, size, c1) ==
    IF size <= 0
    THEN {Err("EncodeFailed", "", <<c1>>)}
    ELSE LET waveform == vec_zeroed_wave(as_usize(size)) IN
         { LET written == e.ret
               c2 == Call("encode", self.instance, IsLive(self.instance),
                          payload, payload_len, protocol, volume, waveform.len.lo, 0, written)
           IN  IF written <= 0
               THEN Err("EncodeFailed", "", <<c1, c2>>)
               ELSE Outcome("Ok", "", truncate_wave(e.wave, as_usize(written)), FALSE, <<>>,
                            <<c1, c2>>)
           : e \in ggwave_encode(self.instance, payload, payload_len, protocol,
                                 volume, waveform, 0) }

\* encode that checks the volume only after the query phase.
encode_validates_late(self, payload, protocol, volume) ==
    LET payload_len == to_c_int(payload.len, "payload too large") IN
    IF ~payload_len.ok
    THEN {Err("InvalidInput", payload_len.msg, <<>>)}
    ELSE UNION { LET c1 == Call("encode", self.instance, IsLive(self.instance),
                            payload, payload_len.value, protocol, volume, 0, 1, q.ret)
                 IN  IF ~volume_in_range(volume)
                     THEN {Err("InvalidInput", "volume must be between 0 and 100",
                               <<c1>>)}
                     ELSE encode_fill(self, payload, payload_len.value, protocol,
                                      volume, q.ret, c1)
                 : q \in ggwave_encode(self.instance, payload, payload_len.value,
                                       protocol, volume, NoWave, 1) }

\* GgWave::encode: every outcome the Engine allows.
encode(self, payload, protocol, volume) ==
    IF ~volume_in_range(volume)
    THEN {Err("InvalidInput", "volume must be between 0 and 100", <<>>)}
    ELSE LET payload_len == to_c_int(payload.len, "payload too large") IN
         IF ~payload_len.ok
         THEN {Err("InvalidInput", payload_len.msg, <<>>)}
         ELSE UNION { encode_fill(self, payload, payload_len.value, protocol, volume,
                                  q.ret,
                                  Call("encode", self.instance, IsLive(self.instance),
                                       payload, payload_len.value, protocol, volume, 0, 1, q.ret))
                      : q \in ggwave_encode(self.instance, payload, payload_len.value,
                                            protocol, volume, NoWave, 1) }

\* The match with two outcomes only: a payload or DecodeFailed.
decode_match_binary(decoded, payload, cs) ==
    IF decoded > 0
    THEN Outcome("Ok", "", NoWave, TRUE, truncate(payload, decoded), cs)
    ELSE Err("DecodeFailed", "", cs)

\* GgWave::decode, the match on the Engine's return code.
decode_match(decoded, payload, cs) ==
    IF decoded = 0 THEN Outcome("Ok", "", NoWave, FALSE, <<>>, cs)
    ELSE IF decoded = -1 THEN Err("DecodeFailed", "", cs)
    ELSE IF decoded = -2 THEN Err("BufferTooSmall", "", cs)
    ELSE IF decoded > 0
    THEN Outcome("Ok", "", NoWave, TRUE, truncate(payload, decoded), cs)
    ELSE Err("DecodeFailed", "", cs)

\* decode that tells the Engine of a capacity twice that of its buffer.
decode_wrong_capacity(self, waveform) ==
    LET waveform_len == to_c_int(waveform.len, "waveform too large") IN
    IF ~waveform_len.ok
    THEN {Err("InvalidInput", waveform_len.msg, <<>>)}
    ELSE LET payload == vec_zeroed(MAX_DATA_SIZE) IN
         { decode_match(e.ret, e.buf,
                        <<Call("ndecode", self.instance, IsLive(self.instance),
                               NoSlice, waveform_len.value, 0, 0, 2 * Len(payload), 0, e.ret)>>)
           : e \in ggwave_ndecode(self.instance, waveform, waveform_len.value,
                                  payload, 2 * Len(payload)) }

\* GgWave::decode: every outcome the Engine allows.
decode(self, waveform) ==
    LET waveform_len == to_c_int(waveform.len, "waveform too large") IN
    IF ~waveform_len.ok
    THEN {Err("InvalidInput", waveform_len.msg, <<>>)}
    ELSE LET payload == vec_zeroed(MAX_DATA_SIZE) IN
         { decode_match(e.ret, e.buf,
                        <<Call("ndecode", self.instance, IsLive(self.instance),
                               NoSlice, waveform_len.value, 0, 0, Len(payload), 0, e.ret)>>)
           : e \in ggwave_ndecode(self.instance, waveform, waveform_len.value,
                                  payload, Len(payload)) }

\* GgWave::rx_duration_frames: the Engine's answer, as it is.
rx_duration_frames(self) ==
    { Outcome("Ok", "", NoWave, FALSE, <<>>,
              <<Call("rxDurationFrames", self.instance, IsLive(self.instance),
                     NoSlice, 0, 0, 0, 0, 0, r)>>)
      : r \in ggwave_rxDurationFrames(self.instance) }

\* set_rx_protocol_enabled and set_tx_protocol_enabled (fn names them): the
\* toggles of the Engine after the call.
set_protocol_enabled(fn, toggles, protocol, enabled) ==
    IF fn = "set_rx_protocol_enabled"
    THEN [toggles EXCEPT !.rx = ggwave_toggleProtocol(@, protocol,
                                                      IF enabled THEN 1 ELSE 0)]
    ELSE [toggles EXCEPT !.tx = ggwave_toggleProtocol(@, protocol,
                                                      IF enabled THEN 1 ELSE 0)]

\* drop frees the handle twice.
drop_twice(self) == <<self.instance, self.instance>>
\* drop frees nothing.
drop_leak(self) == <<>>

\* impl Drop for GgWave: the handles drop passes to ggwave_free, in order.
drop(self) == <<self.instance>>

RECURSIVE free_all(_, _, _)
\* The ggwave_free calls for the handles hs, made in order on the table:
\* the table they leave and the calls as they were made.
free_all(table, hs, cs) ==
    IF hs = <<>>
    THEN [table |-> table, calls |-> cs]
    ELSE free_all(ggwave_free(table, Head(hs)), Tail(hs),
                  Append(cs, Call("free", Head(hs),
                                  Head(hs) \in Handles /\ table[Head(hs)],
                                  NoSlice, 0, 0, 0, 0, 0, 0)))

\* new without the check of a negative handle.
new_unchecked(parameters) ==
    LET e == ggwave_init(parameters)
        c == Call("init", e.ret, FALSE, NoSlice, 0, 0, 0, 0, 0, e.ret)
    IN  [res |-> "Ok", self |-> GgWave("Active", e.ret, parameters, 0),
         table |-> e.table, calls |-> <<c>>]

\* GgWave::new: the value returned, if any, with the Engine call made.
new(parameters) ==
    LET e == ggwave_init(parameters)
        instance == e.ret
        c == Call("init", instance, FALSE, NoSlice, 0, 0, 0, 0, 0, instance)
    IN  IF instance < 0
        THEN [res |-> "InitFailed", self |-> NoGgWave, table |-> e.table,
              calls |-> <<c>>]
        ELSE [res |-> "Ok", self |-> GgWave("Active", instance, parameters, 0),
              table |-> e.table, calls |-> <<c>>]

\* drop runs, and a copy of the value lives on.
scope_exit_copy_survives(table, self) ==
    LET f == free_all(table, drop(self), <<>>) IN
    [table |-> f.table, calls |-> f.calls, self |-> self]

\* A GgWave value goes out of scope: drop runs, and the value is gone.
\* freed counts the ggwave_free calls drop made with the value's handle.
scope_exit(table, self) ==
    LET f == free_all(table, drop(self), <<>>) IN
    [table |-> f.table, calls |-> f.calls,
     self |-> GgWave("Released", -1, NoParameters,
                     self.freed + Len(SelectSeq(f.calls,
                         LAMBDA c : c.fn = "free" /\ c.instance = self.instance)))]

\* --------------------------------------------------------------- inputs
F32Parameters == Parameters(GGWAVE_SAMPLE_FORMAT_F32, GGWAVE_SAMPLE_FORMAT_F32)
\* The bytes of the message of the command line, and of a short payload.
Message == Slice(as_usize(1), 104)

\* The inputs of the codec operations of a single session.
Volumes == {-1, 0, 25, 100, 101}
Payloads ==
    {Slice(n, 104) :
       n \in {as_usize(0), as_usize(1), as_usize(C_INT_MAX), usize(1, 0)}}
Protocols == {GGWAVE_PROTOCOL_AUDIBLE_FAST, GGWAVE_PROTOCOL_COUNT - 1}
Waveforms ==
    {Wave(as_usize(4), "silence", NoSlice), Wave(as_usize(4), "noise", NoSlice),
     Wave(usize(1, 0), "silence", NoSlice),
     Wave(usize(1, 0), "data", Slice(as_usize(MAX_DATA_SIZE + 1), 104))}
    \cup {Wave(as_usize(8), "data", Slice(as_usize(n), 104)) :
             n \in {1, MAX_DATA_SIZE, MAX_DATA_SIZE + 1}}

\* The inputs of the codec operations where many sessions live and die.
FewVolumes == {100, 101}
FewWaveforms ==
    {Wave(as_usize(4), "noise", NoSlice), Wave(usize(1, 0), "silence", NoSlice),
     Wave(as_usize(8), "data", Message),
     Wave(as_usize(8), "data", Slice(as_usize(MAX_DATA_SIZE + 1), 104))}

\* ------------------------------------------------------------ operations
\* What `last` records of an operation and its inputs.
Last(op, sess, o, volume, payload, protocol, waveform, parameters) ==
    [op |-> op, sess |-> sess, res |-> o.res, msg |-> o.msg, wave |-> o.wave,
     some |-> o.some, data |-> o.data, volume |-> volume, payload |-> payload,
     protocol |-> protocol, waveform |-> waveform, parameters |-> parameters]

\* The command line tool: pc, where encode() or decode() of main.rs stands;
\* sess, its local `ggwave`; err, the error it returned; exit, the exit
\* status of the process (-1: still running); stderr, the lines written to
\* the error stream; stdout, what was printed.
Cli(pc, sess, volume, protocol, waveform, err, exit, stderr, stdout) ==
    [pc |-> pc, sess |-> sess, volume |-> volume, protocol |-> protocol,
     waveform |-> waveform, err |-> err, exit |-> exit, stderr |-> stderr,
     stdout |-> stdout]
CliIdle == Cli("idle", 0, 0, 0, NoWave, "", -1, 0, "")

\* What a thread is executing: the operation of the wrapper, the session
\* it is called on (0: none), what GgWave::new has read from the Engine, and
\* the arguments of a protocol toggle.
Running(fn, sess, created, protocol, enabled) ==
    [fn |-> fn, sess |-> sess, created |-> created, protocol |-> protocol,
     enabled |-> enabled]
NoNew == [res |-> "", self |-> NoGgWave, calls |-> <<>>]
NotRunning == Running("none", 0, NoNew, 0, FALSE)

\* Engine: every protocol is enabled for reception and for transmission.
AllProtocols == [rx |-> Protocols, tx |-> Protocols]

\* A sample as hound reads it and as decode() of the tool converts it.
Sample(format, s, converted, f) ==
    [format |-> format, s |-> s, converted |-> converted, f |-> f]
NoSample == Sample("none", 0, FALSE, F32(FALSE, 0, 0))

\* No operation of the wrapper yet.
NoLast == Last("none", 0, Err("Ok", "", <<>>), 0, NoSlice, 0, NoWave, NoParameters)

Init ==
    /\ g_instances = [h \in Handles |-> FALSE]
    /\ sessions = [s \in SessionIds |-> NoGgWave]
    /\ calls = <<>>
    /\ last = NoLast
    /\ cli = CliIdle
    /\ owner = [s \in SessionIds |-> 0]
    /\ threads = [t \in Threads |-> NotRunning]
    /\ g_protocols = AllProtocols
    /\ pcm = NoSample

\* The session values that hold a handle.
LiveSessions == {s \in SessionIds : sessions[s].state = "Active"}
\* The next session value of the program, when it creates one.
IsNextSession(s) ==
    /\ sessions[s].state = "Uninitialized"
    /\ \A r \in SessionIds : r < s => sessions[r].state # "Uninitialized"

\* let s = GgWave::new(parameters): the effect on the state, but for cli.
Create(s, parameters) ==
    LET n == new(parameters) IN
    /\ g_instances' = n.table
    /\ calls' = n.calls
    /\ sessions' = IF n.res = "Ok" THEN [sessions EXCEPT ![s] = n.self] ELSE sessions
    /\ last' = Last("new", IF n.res = "Ok" THEN s ELSE 0, Err(n.res, "", n.calls), 0,
                    NoSlice, 0, NoWave, parameters)
    /\ owner' = IF n.res = "Ok" THEN [owner EXCEPT ![s] = MainThread] ELSE owner

\* GgWave::new(parameters), called by the client program.
GgWave_new(parameters) ==
    /\ cli.pc = "idle"
    /\ \E s \in SessionIds : IsNextSession(s) /\ Create(s, parameters)
    /\ UNCHANGED cli
    /\ UNCHANGED <<threads, g_protocols, pcm>>

\* GgWave::encode(&self, payload, protocol, volume) on a value that exists.
GgWave_encode(s, payload, protocol, volume) ==
    /\ cli.pc = "idle"
    /\ sessions[s].state = "Active"
    /\ \E o \in encode(sessions[s], payload, protocol, volume) :
         /\ calls' = o.calls
         /\ last' = Last("encode", s, o, volume, payload, protocol, NoWave,
                         NoParameters)
    /\ UNCHANGED <<g_instances, sessions, cli>>
    /\ UNCHANGED <<owner, threads, g_protocols, pcm>>

\* GgWave::decode(&self, waveform) on a value that exists.
GgWave_decode(s, waveform) ==
    /\ cli.pc = "idle"
    /\ sessions[s].state = "Active"
    /\ \E o \in decode(sessions[s], waveform) :
         /\ calls' = o.calls
         /\ last' = Last("decode", s, o, 0, NoSlice, 0, waveform, NoParameters)
    /\ UNCHANGED <<g_instances, sessions, cli>>
    /\ UNCHANGED <<owner, threads, g_protocols, pcm>>

\* GgWave::rx_duration_frames(&self) on a value that exists.
GgWave_rx_duration_frames(s) ==
    /\ cli.pc = "idle"
    /\ sessions[s].state = "Active"
    /\ \E o \in rx_duration_frames(sessions[s]) :
         /\ calls' = o.calls
         /\ last' = Last("rx_duration_frames", s, o, 0, NoSlice, 0, NoWave,
                         NoParameters)
    /\ UNCHANGED <<g_instances, sessions, cli>>
    /\ UNCHANGED <<owner, threads, g_protocols, pcm>>

\* The value goes out of scope in the client program.
GgWave_drop(s) ==
    /\ cli.pc = "idle"
    /\ sessions[s].state = "Active"
    /\ LET x == scope_exit(g_instances, sessions[s]) IN
         /\ g_instances' = x.table
         /\ calls' = x.calls
         /\ sessions' = [sessions EXCEPT ![s] = x.self]
         /\ last' = Last("drop", s, Err("Ok", "", x.calls), 0, NoSlice, 0, NoWave,
                         NoParameters)
    /\ UNCHANGED cli
    /\ UNCHANGED <<owner, threads, g_protocols, pcm>>

\* ------------------------------------------------------ command line tool
\* A WAV file as hound reads it: whether it opens, its spec, whether its
\* samples read, and the signal its samples hold.
WavFile(exists, channels, sample_format, bits_per_sample, readable, nsamples, kind, payload) ==
    [exists |-> exists, channels |-> channels, sample_format |-> sample_format,
     bits_per_sample |-> bits_per_sample, readable |-> readable,
     nsamples |-> nsamples, kind |-> kind, payload |-> payload]
WavFiles ==
    {WavFile(FALSE, 1, "Float", 32, TRUE, 0, "silence", NoSlice),
     WavFile(TRUE, 2, "Float", 32, TRUE, 2, "data", Message),
     WavFile(TRUE, 1, "Int", 8, TRUE, 2, "data", Message),
     WavFile(TRUE, 1, "Float", 32, FALSE, 2, "data", Message),
     WavFile(TRUE, 1, "Float", 32, TRUE, 2, "data", Message),
     WavFile(TRUE, 1, "Float", 32, TRUE, 2, "data", Slice(as_usize(MAX_DATA_SIZE + 1), 104)),
     WavFile(TRUE, 1, "Int", 16, TRUE, 2, "noise", NoSlice),
     WavFile(TRUE, 1, "Int", 32, TRUE, 2, "silence", NoSlice)}
CliVolumes == {25, 101}

\* The match that takes every encoding.
format_supported_any(file) == TRUE

\* The match of decode() on (sample_format, bits_per_sample).
format_supported(file) ==
    \/ file.sample_format = "Float" /\ file.bits_per_sample = 32
    \/ file.sample_format = "Int" /\ file.bits_per_sample = 16
    \/ file.sample_format = "Int" /\ file.bits_per_sample = 32

\* decode(), lines 156 and 163: an integer sample as a normalized f32.
normalize_sample(format, s) ==
    IF format = "Int16" THEN f32_div(int_as_f32(s), int_as_f32(I16_MAX))
    ELSE f32_div(int_as_f32(s), int_as_f32(I32_MAX))

\* The samples of the file as raw f32 bytes, four to a sample.
samples_to_bytes(file) == Wave(as_usize(4 * file.nsamples), file.kind, file.payload)

\* The function returns and its local `ggwave` is never dropped.
CliReturn_forgets(cs, err, stdout) ==
    /\ calls' = cs
    /\ UNCHANGED <<g_instances, sessions>>
    /\ cli' = [cli EXCEPT !.pc = "returned", !.err = err, !.stdout = stdout]

\* The function returns: its local `ggwave`, if it has one, goes out of
\* scope after the Engine calls cs of the step.
CliReturn(cs, err, stdout) ==
    /\ IF cli.sess # 0
       THEN LET x == scope_exit(g_instances, sessions[cli.sess]) IN
            /\ g_instances' = x.table
            /\ sessions' = [sessions EXCEPT ![cli.sess] = x.self]
            /\ calls' = cs \o x.calls
       ELSE /\ calls' = cs
            /\ UNCHANGED <<g_instances, sessions>>
    /\ cli' = [cli EXCEPT !.pc = "returned", !.err = err, !.stdout = stdout]

\* encode(), lines 101-105: the parameters and GgWave::new(params)?.
CliEncode_new(volume, protocol) ==
    /\ cli.pc = "idle"
    /\ \E s \in SessionIds :
         /\ IsNextSession(s)
         /\ Create(s, F32Parameters)
         /\ cli' = IF last'.res = "Ok"
                   THEN [cli EXCEPT !.pc = "enc_encode", !.sess = s,
                                    !.volume = volume, !.protocol = protocol]
                   ELSE [cli EXCEPT !.pc = "returned", !.err = last'.res]
    /\ UNCHANGED <<threads, g_protocols, pcm>>

\* encode(), line 106: ggwave.encode(message.as_bytes(), protocol.into(), volume)?.
CliEncode_encode ==
    /\ cli.pc = "enc_encode"
    /\ \E o \in encode(sessions[cli.sess], Message, cli.protocol, cli.volume) :
         /\ last' = Last("encode", cli.sess, o, cli.volume, Message, cli.protocol,
                         NoWave, NoParameters)
         /\ IF o.res = "Ok"
            THEN /\ cli' = [cli EXCEPT !.pc = "enc_write", !.waveform = o.wave]
                 /\ calls' = o.calls
                 /\ UNCHANGED <<g_instances, sessions>>
            ELSE CliReturn(o.calls, o.res, "")
    /\ UNCHANGED <<owner, threads, g_protocols, pcm>>

\* encode(), lines 108-133: the WAV file is created, written and finalized,
\* each of which may fail, and the summary is printed.
CliEncode_write(io_ok) ==
    /\ cli.pc = "enc_write"
    /\ CliReturn(<<>>, IF io_ok THEN "" ELSE "io", IF io_ok THEN "Encoded" ELSE "")
    /\ UNCHANGED last
    /\ UNCHANGED <<owner, threads, g_protocols, pcm>>

\* decode(), lines 137-173: the file is opened, its spec checked and its
\* samples read as raw f32 bytes.  The run has not called the wrapper yet.
CliDecode_read(file) ==
    /\ cli.pc = "idle"
    /\ IF ~file.exists THEN CliReturn(<<>>, "io", "")
       ELSE IF file.channels # 1 THEN CliReturn(<<>>, "expected mono audio", "")
       ELSE IF ~format_supported(file)
       THEN CliReturn(<<>>, "unsupported sample format", "")
       ELSE IF ~file.readable THEN CliReturn(<<>>, "io", "")
       ELSE /\ cli' = [cli EXCEPT !.pc = "dec_new", !.waveform = samples_to_bytes(file)]
            /\ calls' = <<>>
            /\ UNCHANGED <<g_instances, sessions>>
    /\ last' = NoLast
    /\ UNCHANGED <<owner, threads, g_protocols, pcm>>

\* decode(), lines 175-180: the parameters and GgWave::new(params)?.
CliDecode_new ==
    /\ cli.pc = "dec_new"
    /\ \E s \in SessionIds :
         /\ IsNextSession(s)
         /\ Create(s, F32Parameters)
         /\ cli' = IF last'.res = "Ok"
                   THEN [cli EXCEPT !.pc = "dec_decode", !.sess = s]
                   ELSE [cli EXCEPT !.pc = "returned", !.err = last'.res]
    /\ UNCHANGED <<threads, g_protocols, pcm>>

\* decode(), lines 182-192: ggwave.decode(&waveform)? and what is printed.
CliDecode_decode ==
    /\ cli.pc = "dec_decode"
    /\ \E o \in decode(sessions[cli.sess], cli.waveform) :
         /\ last' = Last("decode", cli.sess, o, 0, NoSlice, 0, cli.waveform,
                         NoParameters)
         /\ IF o.res # "Ok" THEN CliReturn(o.calls, o.res, "")
            ELSE IF o.some THEN CliReturn(o.calls, "", "text")
            ELSE CliReturn(o.calls, "", "No payload decoded.")
    /\ UNCHANGED <<owner, threads, g_protocols, pcm>>

\* main() prints the error and returns as after a success.
CliMain_swallows ==
    /\ cli.pc = "returned"
    /\ cli' = IF cli.err # ""
              THEN [cli EXCEPT !.pc = "exited", !.stderr = @ + 1, !.exit = 0]
              ELSE [cli EXCEPT !.pc = "exited", !.exit = 0]
    /\ UNCHANGED <<g_instances, sessions, calls, last>>
    /\ UNCHANGED <<owner, threads, g_protocols, pcm>>

\* main(): an error is printed to the error stream and the process exits
\* with status 1; otherwise main returns.
CliMain ==
    /\ cli.pc = "returned"
    /\ cli' = IF cli.err # ""
              THEN [cli EXCEPT !.pc = "exited", !.stderr = @ + 1, !.exit = 1]
              ELSE [cli EXCEPT !.pc = "exited", !.exit = 0]
    /\ UNCHANGED <<g_instances, sessions, calls, last>>
    /\ UNCHANGED <<owner, threads, g_protocols, pcm>>

\* The tool has ended; it may be run again.
CliDone ==
    /\ cli.pc = "exited"
    /\ cli' = CliIdle
    /\ UNCHANGED <<g_instances, sessions, calls, last>>
    /\ UNCHANGED <<owner, threads, g_protocols, pcm>>

\* The steps of a run of the tool once it has started.
CliStep ==
    \/ CliEncode_encode
    \/ \E io_ok \in BOOLEAN : CliEncode_write(io_ok)
    \/ CliDecode_new
    \/ CliDecode_decode
    \/ CliMain
    \/ CliDone

CliStart ==
    \/ \E volume \in CliVolumes : CliEncode_new(volume, GGWAVE_PROTOCOL_AUDIBLE_FAST)
    \/ \E file \in WavFiles : CliDecode_read(file)

Lifecycle ==
    \/ \E parameters \in ParameterSet : GgWave_new(parameters)
    \/ \E s \in SessionIds, volume \in FewVolumes :
          GgWave_encode(s, Message, GGWAVE_PROTOCOL_AUDIBLE_FAST, volume)
    \/ \E s \in SessionIds, waveform \in FewWaveforms : GgWave_decode(s, waveform)
    \/ \E s \in SessionIds : GgWave_rx_duration_frames(s)
    \/ \E s \in SessionIds : GgWave_drop(s)

Next == Lifecycle \/ CliStart \/ CliStep

Spec == Init /\ [][Next]_vars

\* A run of the tool, once started, goes on to its end.
FairSpec == Spec /\ WF_vars(CliStep)

\* GgWave::new(parameters) of a program that creates one session.
GgWave_new_once(parameters) ==
    /\ sessions[1].state = "Uninitialized"
    /\ GgWave_new(parameters)

\* One session, created, used with every input and dropped.
NextCodec ==
    \/ \E parameters \in ParameterSet : GgWave_new_once(parameters)
    \/ \E payload \in Payloads, protocol \in Protocols, volume \in Volumes :
          GgWave_encode(1, payload, protocol, volume)
    \/ \E waveform \in Waveforms : GgWave_decode(1, waveform)
    \/ GgWave_rx_duration_frames(1)
    \/ GgWave_drop(1)

SpecCodec == Init /\ [][NextCodec]_vars

\* The inputs of an encode whose waveform is then decoded.
RoundTripPayloads ==
    {Slice(as_usize(n), 104) : n \in {0, 1, 2, MAX_DATA_SIZE, MAX_DATA_SIZE + 1}}
RoundTripVolumes == {0, 25, 100}

\* GgWave::new(parameters) of a program with a sender and a receiver.
GgWave_new_pair(parameters) ==
    /\ sessions[2].state = "Uninitialized"
    /\ GgWave_new(parameters)

\* rx.decode(&waveform) of the waveform the encode just before returned.
GgWave_decode_encoded(rx) ==
    /\ last.op = "encode" /\ last.res = "Ok"
    /\ GgWave_decode(rx, last.wave)

\* Two sessions; what one encodes, either decodes.
NextRoundTrip ==
    \/ \E parameters \in ParameterSet : GgWave_new_pair(parameters)
    \/ \E tx \in {1, 2}, payload \in RoundTripPayloads, protocol \in Protocols,
          volume \in RoundTripVolumes : GgWave_encode(tx, payload, protocol, volume)
    \/ \E rx \in {1, 2} : GgWave_decode_encoded(rx)
    \/ \E s \in {1, 2} : GgWave_drop(s)

SpecRoundTrip == Init /\ [][NextRoundTrip]_vars

\* ---------------------------------------------------------------- samples
\* The conversion of one integer sample by decode() of the tool.
\* The samples about the powers of two up to 2^bits, and about the numbers
\* halfway between them.
SamplesAbout(bits) ==
    UNION {{2 ^ k, 2 ^ k + 1, 2 ^ k - 1, -(2 ^ k), -(2 ^ k) - 1, 1 - 2 ^ k,
            3 * 2 ^ (k - 1), 3 * 2 ^ (k - 1) + 1, -3 * 2 ^ (k - 1) - 1}
           : k \in 1 .. bits}
I16Samples == {I16_MIN, I16_MIN + 1, I16_MAX, I16_MAX - 1, 0} \cup SamplesAbout(14)
I32Samples == {I32_MIN, I32_MIN + 1, I32_MAX, I32_MAX - 1, 0} \cup SamplesAbout(30)

\* reader.samples::<i16>() or ::<i32>() yields the sample s.
Sample_read(format, s) ==
    /\ pcm = NoSample
    /\ pcm' = Sample(format, s, FALSE, F32(FALSE, 0, 0))
    /\ UNCHANGED <<g_instances, sessions, calls, last, cli, owner, threads, g_protocols>>

\* .map(|s| s as f32 / i16::MAX as f32), or i32::MAX.
Sample_convert ==
    /\ pcm.format # "none" /\ ~pcm.converted
    /\ pcm' = [pcm EXCEPT !.converted = TRUE, !.f = normalize_sample(pcm.format, pcm.s)]
    /\ UNCHANGED <<g_instances, sessions, calls, last, cli, owner, threads, g_protocols>>

NextSamples ==
    \/ \E s \in I16Samples : Sample_read("Int16", s)
    \/ \E s \in I32Samples : Sample_read("Int32", s)
    \/ Sample_convert

SpecSamples == Init /\ [][NextSamples]_vars

\* ---------------------------------------------------------------- threads
\* A program of several threads that uses the public API.  An operation of
\* the wrapper is entered by a thread and left by it later; other threads
\* run in between.  The threads drop the results of encode, decode and
\* rx_duration_frames: calls and last, which record the operations of a
\* program of one thread, are left as they are.

\* A GgWave that any thread may use, as if it were Send and Sync.
may_use_shared(t, s) == TRUE

\* GgWave is neither Send nor Sync (its PhantomData<Rc<()>>): the value
\* stays on the thread that created it, and no other thread has a reference
\* to it.
may_use(t, s) == owner[s] = t

\* The operations of the wrapper on a session.
SessionOps == {"encode", "decode", "rx_duration_frames", "drop"}
\* The sessions the threads may still create.
FreeSlots == {s \in 1 .. MaxThreadSessions : sessions[s].state = "Uninitialized"}
\* The threads inside GgWave::new.
Creating == {t \in Threads : threads[t].fn = "new"}

\* Thread t enters GgWave::new(parameters): ggwave_init finds the handle it
\* will return, the first one free in the table as it is now.
Thread_new_call(t, parameters) ==
    /\ cli.pc = "idle"
    /\ threads[t] = NotRunning
    /\ Cardinality(FreeSlots) > Cardinality(Creating)
    /\ LET n == new(parameters) IN
         threads' = [threads EXCEPT ![t] =
                        Running("new", 0, [res |-> n.res, self |-> n.self,
                                           calls |-> n.calls], 0, FALSE)]
    /\ UNCHANGED <<g_instances, sessions, calls, last, cli, owner, g_protocols, pcm>>

\* ggwave_init of thread t marks the handle it found as allocated, and
\* GgWave::new returns the value, or InitFailed.
Thread_new_return(t) ==
    /\ threads[t].fn = "new"
    /\ LET n == threads[t].created
           s == CHOOSE x \in FreeSlots : \A y \in FreeSlots : x <= y
       IN  IF n.res = "Ok"
           THEN /\ g_instances' = [g_instances EXCEPT ![n.self.instance] = TRUE]
                /\ sessions' = [sessions EXCEPT ![s] = n.self]
                /\ owner' = [owner EXCEPT ![s] = t]
           ELSE UNCHANGED <<g_instances, sessions, owner>>
    /\ threads' = [threads EXCEPT ![t] = NotRunning]
    /\ UNCHANGED <<calls, last, cli, g_protocols, pcm>>

\* Thread t enters encode, decode or rx_duration_frames of a value it can
\* reach, or lets that value go out of scope.
Thread_call(t, fn, s) ==
    /\ cli.pc = "idle"
    /\ threads[t] = NotRunning
    /\ sessions[s].state = "Active"
    /\ may_use(t, s)
    /\ threads' = [threads EXCEPT ![t] = Running(fn, s, NoNew, 0, FALSE)]
    /\ UNCHANGED <<g_instances, sessions, calls, last, cli, owner, g_protocols, pcm>>

\* The operation of thread t on its session returns.
Thread_return(t) ==
    /\ threads[t].fn \in SessionOps
    /\ LET s == threads[t].sess
           fn == threads[t].fn
           waveform == Wave(as_usize(8), "data", Message)
       IN  IF fn = "drop"
           THEN LET x == scope_exit(g_instances, sessions[s]) IN
                /\ g_instances' = x.table
                /\ sessions' = [sessions EXCEPT ![s] = x.self]
           ELSE /\ \E o \in (IF fn = "encode"
                              THEN encode(sessions[s], Message,
                                          GGWAVE_PROTOCOL_AUDIBLE_FAST, 25)
                              ELSE IF fn = "decode"
                              THEN decode(sessions[s], waveform)
                              ELSE rx_duration_frames(sessions[s])) :
                     o.res \in {"Ok", "EncodeFailed", "DecodeFailed"}
                /\ UNCHANGED <<g_instances, sessions>>
    /\ threads' = [threads EXCEPT ![t] = NotRunning]
    /\ UNCHANGED <<calls, last, cli, owner, g_protocols, pcm>>

\* Thread t enters set_rx_protocol_enabled or set_tx_protocol_enabled.
Thread_toggle_call(t, fn, protocol, enabled) ==
    /\ cli.pc = "idle"
    /\ threads[t] = NotRunning
    /\ threads' = [threads EXCEPT ![t] = Running(fn, 0, NoNew, protocol, enabled)]
    /\ UNCHANGED <<g_instances, sessions, calls, last, cli, owner, g_protocols, pcm>>

\* The toggle of thread t is written to the Engine, and the call returns.
Thread_toggle_return(t) ==
    /\ threads[t].fn \in {"set_rx_protocol_enabled", "set_tx_protocol_enabled"}
    /\ g_protocols' = set_protocol_enabled(threads[t].fn, g_protocols,
                                           threads[t].protocol, threads[t].enabled)
    /\ threads' = [threads EXCEPT ![t] = NotRunning]
    /\ UNCHANGED <<g_instances, sessions, calls, last, cli, owner, pcm>>

NextThreads ==
    \/ \E t \in Threads, parameters \in {F32Parameters, NoParameters} :
          Thread_new_call(t, parameters)
    \/ \E t \in Threads : Thread_new_return(t)
    \/ \E t \in Threads, fn \in SessionOps, s \in 1 .. MaxThreadSessions :
          Thread_call(t, fn, s)
    \/ \E t \in Threads : Thread_return(t)
    \/ \E t \in Threads, fn \in {"set_rx_protocol_enabled", "set_tx_protocol_enabled"} :
          Thread_toggle_call(t, fn, GGWAVE_PROTOCOL_AUDIBLE_FAST, FALSE)
    \/ \E t \in Threads : Thread_toggle_return(t)

SpecThreads == Init /\ [][NextThreads]_vars

\* ---------------------------------------------------------------- claims
FreeCalls == SelectSeq(calls, LAMBDA c : c.fn = "free")
Allocated == {h \in Handles : g_instances[h]}
HeldHandles == {sessions[s].instance : s \in LiveSessions}
CliInFunction == cli.pc \in {"enc_encode", "enc_write", "dec_new", "dec_decode"}

\* C1: a session that was created has its handle freed exactly once, when it
\* is torn down, and not before; a create that failed frees nothing; using a
\* session frees nothing; and every handle freed was allocated when freed
\* (no handle is freed twice without being handed out again in between).
C1_FreedExactlyOnce ==
    /\ \A s \in SessionIds :
         sessions[s].freed = IF sessions[s].state = "Released" THEN 1 ELSE 0
    /\ \A i \in 1 .. Len(FreeCalls) : FreeCalls[i].live
    /\ last.op = "new" => FreeCalls = <<>>
    /\ (last.op \in {"encode", "decode"} /\ sessions[last.sess].state = "Active")
         => FreeCalls = <<>>
    /\ Len(FreeCalls) <= 1

\* A session was torn down, and later a create failed with InitFailed.
C1_Witness ==
    /\ \E s \in SessionIds : sessions[s].state = "Released" /\ sessions[s].freed = 1
    /\ last.op = "new" /\ last.res = "InitFailed"
    /\ \E s \in SessionIds : sessions[s].state = "Active"

\* C2: the handle is released on every exit path.  The handles allocated are
\* at all times those of the sessions that exist, so that none is allocated
\* once all sessions have ended; when encode() or decode() of the tool has
\* returned, with or without an error, its session is gone; and a run of the
\* tool that holds a session leads to its return with that session's handle
\* freed.
C2_NoLeakInv ==
    /\ Allocated = HeldHandles
    /\ (LiveSessions = {} => Allocated = {})
    /\ (cli.pc \in {"returned", "exited"} /\ cli.sess # 0)
         => sessions[cli.sess].state = "Released"

C2_ReleasedOnEveryPath ==
    /\ []C2_NoLeakInv
    /\ (CliInFunction /\ cli.sess # 0)
         ~> (/\ cli.pc = "returned" /\ cli.sess # 0
             /\ sessions[cli.sess].state = "Released"
             /\ sessions[cli.sess].freed = 1)

\* encode() of the tool returned EncodeFailed, its session is gone and no
\* handle is allocated.
C2_Witness ==
    /\ cli.pc = "returned" /\ cli.err = "EncodeFailed" /\ cli.sess # 0
    /\ sessions[cli.sess].state = "Released"
    /\ Allocated = {}

\* C3: a create with a configuration the Engine accepts fails only when all
\* handles of the pool are held by live sessions; so it never fails when
\* every session created before has been released.
C3_SequentialNeverExhausts ==
    (last.op = "new" /\ last.res = "InitFailed" /\ EngineAccepts(last.parameters))
      => /\ Cardinality(LiveSessions) = GGWAVE_MAX_INSTANCES
         /\ \E s \in SessionIds : sessions[s].state = "Active"

\* The fifth session was created after the four before it were released.
C3_Witness ==
    /\ \A s \in 1 .. GGWAVE_MAX_INSTANCES : sessions[s].state = "Released"
    /\ sessions[GGWAVE_MAX_INSTANCES + 1].state = "Active"
    /\ last.op = "new" /\ last.res = "Ok" /\ last.sess = GGWAVE_MAX_INSTANCES + 1

\* A create of the program or of the tool.
IsCreate ==
    \/ \E parameters \in ParameterSet : GgWave_new(parameters)
    \/ \E volume \in CliVolumes : CliEncode_new(volume, GGWAVE_PROTOCOL_AUDIBLE_FAST)
    \/ CliDecode_new

\* C4: with as many sessions live as the pool has handles, a create fails
\* with InitFailed, yields no session and leaves the sessions and the handle
\* table as they were; and never more sessions are live than the pool has
\* handles.
C4_ExcessCreateFails ==
    /\ [](Cardinality(LiveSessions) <= GGWAVE_MAX_INSTANCES)
    /\ [][(Cardinality(LiveSessions) = GGWAVE_MAX_INSTANCES /\ IsCreate)
            => /\ last'.op = "new" /\ last'.res = "InitFailed" /\ last'.sess = 0
               /\ sessions' = sessions
               /\ g_instances' = g_instances]_vars

\* Four sessions are live and a create with an accepted configuration failed.
C4_Witness ==
    /\ Cardinality(LiveSessions) = GGWAVE_MAX_INSTANCES
    /\ last.op = "new" /\ last.res = "InitFailed" /\ EngineAccepts(last.parameters)

\* C5: a session that exists holds a handle >= 0 that the Engine has
\* allocated, and no two sessions that exist hold the same handle.
C5_ExclusiveHandle ==
    /\ \A s \in LiveSessions :
         sessions[s].instance >= 0 /\ IsLive(sessions[s].instance)
    /\ \A s, r \in LiveSessions :
         s # r => sessions[s].instance # sessions[r].instance

\* The handle of the first session, released, is held by the third session
\* while the second lives on.
C5_Witness ==
    /\ sessions[1].state = "Released"
    /\ sessions[2].state = "Active" /\ sessions[2].instance = 1
    /\ sessions[3].state = "Active" /\ sessions[3].instance = 0

VolumeMsg == "volume must be between 0 and 100"
\* The Engine returned a size > 0 in the query phase and in the fill phase.
EngineEncoded == Len(calls) = 2 /\ calls[1].ret > 0 /\ calls[2].ret > 0

\* C6 as stated: encode fails with InvalidInput for every volume below 0 or
\* above 100, and succeeds for the volumes 0 and 100.
C6_AsStated ==
    last.op = "encode"
      => /\ (last.volume < 0 \/ last.volume > 100) => last.res = "InvalidInput"
         /\ last.volume \in {0, 100} => last.res = "Ok"

\* C6, amended: encode fails with InvalidInput, for its volume, for every
\* volume below 0 or above 100; the volumes 0 and 100 are accepted: encode
\* is then not rejected for its volume, and it succeeds exactly when the
\* payload length fits a c_int and the Engine returns a size > 0 in both
\* phases.
C6_VolumeBounds ==
    last.op = "encode"
      => /\ (last.volume < 0 \/ last.volume > 100)
              => last.res = "InvalidInput" /\ last.msg = VolumeMsg
         /\ last.volume \in {0, 100}
              => /\ last.msg # VolumeMsg
                 /\ last.res = "Ok" <=> (to_c_int(last.payload.len, "").ok
                                          /\ EngineEncoded)

\* encode with volume 0 succeeded.
C6_Witness ==
    last.op = "encode" /\ last.volume = 0 /\ last.res = "Ok"

\* C7: when encode or decode returns InvalidInput, no Engine call was made,
\* the handle table and the sessions are as before, and the session is
\* still Active on its handle, which is still allocated.
C7_InvalidInputTouchesNothing ==
    /\ [](last.res = "InvalidInput"
            => /\ last.op \in {"encode", "decode"}
               /\ calls = <<>>
               /\ sessions[last.sess].state = "Active"
               /\ IsLive(sessions[last.sess].instance))
    /\ [][last'.res = "InvalidInput"
            => g_instances' = g_instances /\ sessions' = sessions]_vars

\* encode was refused a payload too long for a c_int.
C7_Witness ==
    /\ last.op = "encode" /\ last.res = "InvalidInput"
    /\ last.msg = "payload too large" /\ calls = <<>>

\* C8: the waveform of a successful encode is as long as the value the
\* Engine returned in the fill phase, which is > 0.
C8_WaveformLength ==
    (last.op = "encode" /\ last.res = "Ok")
      => /\ Len(calls) = 2
         /\ calls[1].query # 0 /\ calls[2].query = 0
         /\ calls[2].ret > 0
         /\ last.wave.len = as_usize(calls[2].ret)

\* The Engine wrote fewer bytes than it had asked for.
C8_Witness ==
    /\ last.op = "encode" /\ last.res = "Ok"
    /\ calls[2].ret < calls[1].ret
    /\ last.wave.len = as_usize(calls[2].ret)

\* C9: decode maps the Engine's return code r to one outcome: 0 to no
\* result, -1 to DecodeFailed, -2 to BufferTooSmall, r > 0 to a payload of
\* r bytes, any other code to DecodeFailed.
C9_DecodeMapping ==
    (last.op = "decode" /\ calls # <<>>)
      => LET r == calls[1].ret IN
         /\ Len(calls) = 1
         /\ r = 0 => last.res = "Ok" /\ ~last.some
         /\ r = -1 => last.res = "DecodeFailed"
         /\ r = -2 => last.res = "BufferTooSmall"
         /\ r > 0 => last.res = "Ok" /\ last.some /\ Len(last.data) = r
         /\ (r < 0 /\ r \notin {-1, -2}) => last.res = "DecodeFailed"
         /\ last.res \in {"Ok", "DecodeFailed", "BufferTooSmall"}
         /\ last.some => last.res = "Ok"

\* The Engine returned a code that is none of 0, -1, -2 or a length.
C9_Witness ==
    /\ last.op = "decode" /\ calls # <<>>
    /\ calls[1].ret < -2
    /\ last.res = "DecodeFailed"

IsProperPrefix(a, b) ==
    Len(a) < Len(b) /\ \A i \in 1 .. Len(a) : a[i] = b[i]

\* C10: decode of a waveform (of a length decode accepts) that transmits a
\* payload of more than MAX_DATA_SIZE bytes returns BufferTooSmall; and a
\* payload decode returns is never longer than MAX_DATA_SIZE nor a proper
\* prefix of the payload transmitted.
C10_NoSilentTruncation ==
    last.op = "decode"
      => /\ (/\ last.waveform.kind = "data"
             /\ last.waveform.payload.len.lo > MAX_DATA_SIZE
             /\ to_c_int(last.waveform.len, "").ok)
              => last.res = "BufferTooSmall" /\ ~last.some
         /\ last.some
              => /\ Len(last.data) <= MAX_DATA_SIZE
                 /\ last.waveform.kind = "data"
                 /\ ~IsProperPrefix(last.data, to_vec(last.waveform.payload))

\* decode of a waveform that transmits MAX_DATA_SIZE + 1 bytes.
C10_Witness ==
    /\ last.op = "decode" /\ last.res = "BufferTooSmall"
    /\ last.waveform.kind = "data"
    /\ last.waveform.payload.len.lo = MAX_DATA_SIZE + 1

\* The error kinds of the wrapper and the errors of the tool itself.
ErrorKinds ==
    {"InitFailed", "EncodeFailed", "DecodeFailed", "BufferTooSmall", "InvalidInput",
     "io", "expected mono audio", "unsupported sample format"}

\* C13: a run of the tool that ends in an error, of whatever kind, has
\* written one line to the error stream and ends with a non-zero exit
\* status; a run that ends without an error has written none and ends with
\* status 0, and so does a decode that yields no result, which prints the
\* notice "No payload decoded."; nothing is written to the error stream
\* before the run ends.
C13_ErrorReporting ==
    /\ cli.err # "" => cli.err \in ErrorKinds /\ cli.stdout = ""
    /\ cli.pc # "exited" => cli.stderr = 0 /\ cli.exit = -1
    /\ (cli.pc = "exited" /\ cli.err # "") => cli.stderr = 1 /\ cli.exit > 0
    /\ (cli.pc = "exited" /\ cli.err = "") => cli.stderr = 0 /\ cli.exit = 0
    /\ (cli.pc \in {"returned", "exited"} /\ last.op = "decode")
         => /\ (last.res = "Ok" /\ ~last.some)
                 <=> cli.stdout = "No payload decoded."
            /\ last.res # "Ok" => cli.err = last.res
            /\ last.res = "Ok" => cli.err = ""

\* A run of the tool ended on BufferTooSmall with one line and status 1.
C13_Witness ==
    /\ cli.pc = "exited" /\ cli.err = "BufferTooSmall"
    /\ cli.stderr = 1 /\ cli.exit = 1

\* C14: an encode that passes the validation of its input first calls the
\* Engine with the query flag set and no destination buffer; if, and only
\* if, that call returns a size > 0 it calls the Engine once more, with the
\* flag cleared and a buffer of exactly that size, with the payload, the
\* protocol and the volume of the first call, which are those encode was
\* given.  A query or a fill that returns <= 0 makes the result EncodeFailed.
C14_TwoPhaseHandshake ==
    last.op = "encode"
      => IF last.res = "InvalidInput" THEN calls = <<>>
         ELSE /\ Len(calls) \in {1, 2}
              /\ \A i \in 1 .. Len(calls) :
                   /\ calls[i].fn = "encode"
                   /\ calls[i].payloadBuffer = last.payload
                   /\ as_usize(calls[i].size) = last.payload.len
                   /\ calls[i].protocolId = last.protocol
                   /\ calls[i].volume = last.volume
              /\ calls[1].query # 0 /\ calls[1].buf = 0
              /\ calls[1].ret <= 0 <=> Len(calls) = 1
              /\ calls[1].ret <= 0 => last.res = "EncodeFailed"
              /\ Len(calls) = 2
                   => /\ calls[2].query = 0
                      /\ calls[2].buf = calls[1].ret
                      /\ calls[2].ret <= 0 <=> last.res = "EncodeFailed"
                      /\ calls[2].ret > 0 <=> last.res = "Ok"

\* The query returned a size and the fill then failed.
C14_Witness ==
    /\ last.op = "encode" /\ last.res = "EncodeFailed"
    /\ Len(calls) = 2 /\ calls[1].ret > 0 /\ calls[2].ret <= 0
    /\ calls[2].buf = calls[1].ret

\* The Engine calls that use a handle.
UseCalls(cs) ==
    {i \in 1 .. Len(cs) : cs[i].fn \in {"encode", "ndecode", "rxDurationFrames"}}

\* C16: every encode, decode and rx-duration call of the Engine carries a
\* handle that was allocated when the call was made; the operation that
\* made it was called on a session that was Active, and the handle is that
\* session's.
C16_NoUseAfterRelease ==
    /\ [](\A i \in UseCalls(calls) : calls[i].live /\ last.sess # 0)
    /\ [][(<<calls, last>>' # <<calls, last>> /\ UseCalls(calls') # {})
            => /\ last'.sess # 0
               /\ sessions[last'.sess].state = "Active"
               /\ \A i \in UseCalls(calls') :
                    /\ calls'[i].instance = sessions[last'.sess].instance
                    /\ IsLive(calls'[i].instance)]_vars

\* The third session encodes on handle 0, which the first session held and
\* released.
C16_Witness ==
    /\ sessions[1].state = "Released"
    /\ sessions[3].state = "Active" /\ sessions[3].instance = 0
    /\ last.op = "encode" /\ last.sess = 3
    /\ calls # <<>> /\ calls[1].instance = 0 /\ calls[1].live

\* The encodings decode() of the tool converts.
SupportedEncodings == {<<"Float", 32>>, <<"Int", 16>>, <<"Int", 32>>}
\* decode() of the tool reads a file that opens and is not mono or whose
\* encoding is none of the three it converts.
ReadsRejectedFile ==
    \E file \in WavFiles :
       /\ file.exists
       /\ \/ file.channels # 1
          \/ <<file.sample_format, file.bits_per_sample>> \notin SupportedEncodings
       /\ CliDecode_read(file)

\* C17: decode() of the tool returns an error for a file that is not mono or
\* whose encoding it does not convert, without creating a session,
\* acquiring a handle or calling the Engine; and such a run has made no
\* call of the wrapper or of the Engine when it ends.
C17_RejectedBeforeCodec ==
    /\ [](cli.err \in {"expected mono audio", "unsupported sample format"}
            => cli.sess = 0 /\ calls = <<>> /\ last = NoLast)
    /\ [][ReadsRejectedFile
            => /\ cli'.pc = "returned"
               /\ cli'.err \in {"expected mono audio", "unsupported sample format"}
               /\ cli'.sess = 0
               /\ calls' = <<>>
               /\ sessions' = sessions
               /\ g_instances' = g_instances]_vars

\* A run of the tool on a stereo file has ended while a session of the
\* program lives on, untouched.
C17_Witness ==
    /\ cli.pc = "exited" /\ cli.err = "expected mono audio"
    /\ cli.sess = 0 /\ calls = <<>>
    /\ LiveSessions # {}

\* rx decodes the waveform tx just encoded from a payload of at least
\* `least` and at most MAX_DATA_SIZE bytes, the two sessions configured alike.
DecodesEncoded(rx, least) ==
    /\ GgWave_decode_encoded(rx)
    /\ last.payload.len.hi = 0
    /\ last.payload.len.lo >= least /\ last.payload.len.lo <= MAX_DATA_SIZE
    /\ last.volume \in 0 .. 100
    /\ sessions[rx].parameters = sessions[last.sess].parameters

\* C11 as stated: decode of the waveform of an encode of any payload p of at
\* most MAX_DATA_SIZE bytes, with any protocol and any volume from 0 to 100,
\* returns Some(p).
C11_AsStated ==
    [][\A rx \in {1, 2} :
         DecodesEncoded(rx, 0)
           => last'.res = "Ok" /\ last'.some /\ last'.data = to_vec(last.payload)]_vars

\* C11, amended: decode of the waveform of a successful encode of a payload
\* p of 1 to MAX_DATA_SIZE bytes returns Some(p); decode of the waveform of
\* an encode of the empty payload does not return Some(p): a payload decode
\* returns has at least one byte.
C11_RoundTrip ==
    /\ [](last.some => Len(last.data) >= 1)
    /\ [][\A rx \in {1, 2} :
            /\ DecodesEncoded(rx, 1)
                 => /\ last'.res = "Ok" /\ last'.some
                    /\ last'.data = to_vec(last.payload)
            /\ (DecodesEncoded(rx, 0) /\ last.payload.len.lo = 0)
                 => ~(last'.some /\ last'.data = to_vec(last.payload))]_vars

\* The receiver returned the MAX_DATA_SIZE bytes the sender encoded.
C11_Witness ==
    /\ last.op = "decode" /\ last.res = "Ok" /\ last.some
    /\ last.sess = 2 /\ sessions[1].state = "Active"
    /\ last.waveform.len.lo <= MaxWaveform
    /\ last.waveform.payload.len.lo = MAX_DATA_SIZE
    /\ last.data = to_vec(last.waveform.payload)

\* The threads that are inside an operation of the wrapper, each of which
\* reads or writes the handle table or the protocol toggles of the Engine.
InEngine == {t \in Threads : threads[t] # NotRunning}

\* C12: every operation on a session (encode, decode, rx_duration_frames
\* and the drop that frees its handle) is executed by the thread that
\* created the session, whatever the other threads do; so no session is in
\* use by two threads at once.
C12_ThreadAffinity ==
    /\ \A t \in Threads :
         threads[t].sess # 0
           => /\ threads[t].fn \in SessionOps
              /\ owner[threads[t].sess] = t
              /\ sessions[threads[t].sess].state = "Active"
    /\ \A s \in SessionIds : sessions[s].state # "Uninitialized" => owner[s] \in Threads
    /\ \A t, u \in Threads :
         (t # u /\ threads[t].sess # 0) => threads[t].sess # threads[u].sess

\* Two threads are each inside an operation on the session they created.
C12_Witness ==
    /\ threads[1].fn = "encode" /\ threads[1].sess # 0
    /\ threads[2].fn = "drop" /\ threads[2].sess # 0
    /\ owner[threads[1].sess] = 1 /\ owner[threads[2].sess] = 2

\* C15: no two threads are at the same time inside operations that read or
\* write the handle table or the protocol toggles of the Engine.
C15_NoConcurrentEngineAccess ==
    Cardinality(InEngine) <= 1

\* The magnitude of the f32 is at most 1.0.
WithinUnit(f) == f.m = 0 \/ f.e < -23 \/ (f.e = -23 /\ f.m = 2 ^ 23)
\* The magnitude of the f32 is 1.0 to within 2^-14.
AboutUnit(f) ==
    \/ f.e = -24 /\ f.m >= 2 ^ 24 - 2 ^ 10
    \/ f.e = -23 /\ f.m <= 2 ^ 23 + 2 ^ 9

\* C18: the 16-bit samples -32768, 0 and 32767 are converted to -1.0, 0.0
\* and about 1.0, and every 16-bit and 32-bit sample is converted to a value
\* of magnitude at most 1.0.
C18_Normalized ==
    pcm.converted
      => /\ (pcm.format = "Int16" /\ pcm.s = I16_MIN) => pcm.f.neg /\ AboutUnit(pcm.f)
         /\ pcm.s = 0 => pcm.f.m = 0
         /\ (pcm.format = "Int16" /\ pcm.s = I16_MAX) => ~pcm.f.neg /\ AboutUnit(pcm.f)
         /\ WithinUnit(pcm.f)

====
